---- MODULE Spec2Model ----
(***************************************************************************)
(* A model of the JTL parser of lib.go: Parse (the line loop, the element  *)
(* lexer parseElement, the indentation stack) and ParseEnv.                *)
(*                                                                         *)
(* A text is a sequence of one-character strings; a document is the        *)
(* sequence of its physical lines, as strings.Split(text, "\n") yields it. *)
(* Positions are 1-based, and 0 stands for Go's -1 ("not found").          *)
(***************************************************************************)
EXTENDS Integers, Sequences, FiniteSets, TLC

(***************************************************************************)
(* The string functions of Go's strings package that lib.go calls.         *)
(***************************************************************************)

\* unicode.IsSpace on the characters a document of the model can hold
Space == {" ", "\t", "\n", "\r"}

\* the cutset " \t" of countIndentation and of the content normaliser
IndentChars == {" ", "\t"}

\* the class \w of the attribute pattern
WordChars ==
    {"a","b","c","d","e","f","g","h","i","j","k","l","m","n","o","p","q","r",
     "s","t","u","v","w","x","y","z","A","B","C","D","E","F","G","H","I","J",
     "K","L","M","N","O","P","Q","R","S","T","U","V","W","X","Y","Z","0","1",
     "2","3","4","5","6","7","8","9","_"}

Min(S) == CHOOSE x \in S : \A y \in S : x <= y

Max(S) == CHOOSE x \in S : \A y \in S : x >= y

HasPrefix(s, p) == Len(s) >= Len(p) /\ SubSeq(s, 1, Len(p)) = p

HasSuffix(s, p) == Len(s) >= Len(p) /\ SubSeq(s, Len(s) - Len(p) + 1, Len(s)) = p

\* strings.Index: the position of the first occurrence of sub from position
\* from on, 0 when there is none
IndexFrom(s, sub, from) ==
    LET hits == {k \in from..(Len(s) - Len(sub) + 1) : SubSeq(s, k, k + Len(sub) - 1) = sub}
    IN  IF hits = {} THEN 0 ELSE Min(hits)

Index(s, sub) == IndexFrom(s, sub, 1)

Contains(s, sub) == Index(s, sub) # 0

TrimLeft(s, cutset) ==
    LET keep == {k \in 1..Len(s) : s[k] \notin cutset}
    IN  IF keep = {} THEN <<>> ELSE SubSeq(s, Min(keep), Len(s))

TrimRight(s, cutset) ==
    LET keep == {k \in 1..Len(s) : s[k] \notin cutset}
    IN  IF keep = {} THEN <<>> ELSE SubSeq(s, 1, Max(keep))

TrimSpace(s) == TrimRight(TrimLeft(s, Space), Space)

TrimPrefix(s, p) == IF HasPrefix(s, p) THEN SubSeq(s, Len(p) + 1, Len(s)) ELSE s

TrimSuffix(s, p) == IF HasSuffix(s, p) THEN SubSeq(s, 1, Len(s) - Len(p)) ELSE s

\* strings.Split(s, sep) for a one-character separator
RECURSIVE Split(_, _)
Split(s, sep) ==
    LET k == Index(s, <<sep>>)
    IN  IF k = 0 THEN <<s>>
        ELSE <<SubSeq(s, 1, k - 1)>> \o Split(SubSeq(s, k + 1, Len(s)), sep)

\* strings.SplitN(s, sep, 2) for a one-character separator
SplitN2(s, sep) ==
    LET k == Index(s, <<sep>>)
    IN  IF k = 0 THEN <<s>> ELSE <<SubSeq(s, 1, k - 1), SubSeq(s, k + 1, Len(s))>>

\* strings.Join(parts, sep) for a one-character separator
RECURSIVE Join(_, _)
Join(parts, sep) ==
    IF Len(parts) = 0 THEN <<>>
    ELSE IF Len(parts) = 1 THEN parts[1]
    ELSE parts[1] \o <<sep>> \o Join(Tail(parts), sep)

(***************************************************************************)
(* The literals of lib.go.                                                 *)
(***************************************************************************)

DoctypeMarker == <<"D","O","C","T","Y","P","E","=","J","T","L">>

EnvMarker == <<">",">",">","E","N","V",";">>

BeginMarker == <<">",">",">","B","E","G","I","N",";">>

EndMarker == <<">",">",">","E","N","D",";">>

DeclPrefix == <<">",">",">">>

EnvRefPrefix == <<"$","e","n","v",":">>

BlockOpen == <<"/","*">>

BlockClose == <<"*","/">>

LineComment == <<">","/","/",">">>

KeyField == <<"K","E","Y">>

ContentField == <<"C","o","n","t","e","n","t">>

ContentsField == <<"C","o","n","t","e","n","t","s">>

ChildrenField == <<"c","h","i","l","d","r","e","n">>

\* the error values Parse and ParseEnv return ("" is nil)
NoError == ""

ErrDoctype == "invalid JTL document: missing DOCTYPE"

ErrFirstSep == "invalid element format: missing first separator"

ErrSecondSep == "invalid element format: missing second separator"

ErrEmptyId == "invalid element format: empty element id"

ErrNoAttrs == "invalid element format: no attributes found"

(***************************************************************************)
(* Go maps, as functions on the set of their keys.                         *)
(***************************************************************************)

EmptyMap == [k \in {} |-> <<>>]

MapSet(m, key, value) ==
    [k \in DOMAIN m \cup {key} |-> IF k = key THEN value ELSE m[k]]

\* the two kinds of value an element map holds: a string, or the
\* []interface{} of its children (the places of the children in heap)
StringValue(s) == [kind |-> "string", str |-> s, list |-> <<>>]

SliceValue(l) == [kind |-> "slice", str |-> <<>>, list |-> l]

(***************************************************************************)
(* parseElement (lib.go 119-201).                                          *)
(***************************************************************************)

\* the match of (\w+)="([^"]+)" that starts at position k: the position of
\* its closing quote, 0 when no match starts at k.  \w+ takes the whole run
\* of word characters (the next character must be "="), and [^"]+ runs to
\* the next quote, which at least one character must precede.
AttrMatchEnd(s, k) ==
    IF s[k] \notin WordChars THEN 0
    ELSE LET e == Min({j \in k..Len(s) : j = Len(s) \/ s[j + 1] \notin WordChars})
         IN  IF /\ e + 3 <= Len(s)
                /\ s[e + 1] = "="
                /\ s[e + 2] = "\""
                /\ s[e + 3] # "\""
             THEN IndexFrom(s, <<"\"">>, e + 3)
             ELSE 0

\* attrRegex.FindAllStringSubmatch(s, -1) from position from on: the
\* leftmost match, then the matches of the text after it; each match is
\* <<match[1], match[2]>>
RECURSIVE FindAllAttrs(_, _)
FindAllAttrs(s, from) ==
    LET starts == {k \in from..Len(s) : AttrMatchEnd(s, k) # 0}
    IN  IF starts = {} THEN <<>>
        ELSE LET k == Min(starts)
                 q == AttrMatchEnd(s, k)
                 eq == IndexFrom(s, <<"=">>, k)
             IN  <<<<SubSeq(s, k, eq - 1), SubSeq(s, eq + 2, q - 1)>>>>
                    \o FindAllAttrs(s, q + 1)

\* len(line) - len(strings.TrimLeft(line, " \t"))
countIndentation(line) == Len(line) - Len(TrimLeft(line, IndentChars))

IsBlank(line) == TrimSpace(line) = <<>>

\* lib.go 144-153: the least indentation of the non-blank sub-lines, -1
\* when every sub-line is blank
MinIndent(sublines) ==
    LET widths == {countIndentation(sublines[k]) :
                      k \in {n \in 1..Len(sublines) : ~IsBlank(sublines[n])}}
    IN  IF widths = {} THEN -1 ELSE Min(widths)

\* lib.go 156-165: the blank sub-lines are left out, the others lose
\* minIndent leading characters and their trailing blanks
RECURSIVE ProcessLines(_, _)
ProcessLines(sublines, minIndent) ==
    IF Len(sublines) = 0 THEN <<>>
    ELSE LET line == Head(sublines)
             cut  == IF minIndent > 0 /\ Len(line) >= minIndent
                     THEN SubSeq(line, minIndent + 1, Len(line))
                     ELSE line
         IN  IF IsBlank(line) THEN ProcessLines(Tail(sublines), minIndent)
             ELSE <<TrimRight(cut, IndentChars)>>
                     \o ProcessLines(Tail(sublines), minIndent)

\* lib.go 141-170
NormalizeContent(content) ==
    IF Contains(content, <<"\n">>)
    THEN LET sublines == Split(content, "\n")
         IN  TrimSpace(Join(ProcessLines(sublines, MinIndent(sublines)), "\n"))
    ELSE TrimSpace(content)

\* a substitution that resolves the value it has looked up once more
SubstituteEnvAgain(content, env) ==
    LET once == IF content # <<>> /\ HasPrefix(content, EnvRefPrefix)
                   /\ TrimSpace(TrimPrefix(content, EnvRefPrefix)) \in DOMAIN env
                THEN env[TrimSpace(TrimPrefix(content, EnvRefPrefix))]
                ELSE content
    IN  IF once # <<>> /\ HasPrefix(once, EnvRefPrefix)
           /\ TrimSpace(TrimPrefix(once, EnvRefPrefix)) \in DOMAIN env
        THEN env[TrimSpace(TrimPrefix(once, EnvRefPrefix))]
        ELSE once

\* a substitution that looks for the reference anywhere in the content
SubstituteEnvAnywhere(content, env) ==
    IF Contains(content, EnvRefPrefix)
    THEN LET at == Index(content, EnvRefPrefix)
             envVar == TrimSpace(SubSeq(content, at + Len(EnvRefPrefix), Len(content)))
         IN  IF envVar \in DOMAIN env THEN env[envVar] ELSE content
    ELSE content

\* lib.go 178-183
SubstituteEnv(content, env) ==
    IF content # <<>> /\ HasPrefix(content, EnvRefPrefix)
    THEN LET envVar == TrimSpace(TrimPrefix(content, EnvRefPrefix))
         IN  IF envVar \in DOMAIN env THEN env[envVar] ELSE content
    ELSE content

\* lib.go 191-194: a later match of a name overwrites an earlier one
RECURSIVE AttrMap(_, _)
AttrMap(matches, m) ==
    IF Len(matches) = 0 THEN m
    ELSE AttrMap(Tail(matches),
                 MapSet(m, Head(matches)[1], StringValue(Head(matches)[2])))

\* the test of the earlier parseElement, which also refused empty content
EmptyIdOrContent(id, content) == id = <<>> \/ content = <<>>

\* lib.go 172-175: only the id is tested, whatever the content is
EmptyId(id, content) == id = <<>>

\* lib.go 188-190
AttrError(matches) == Len(matches) = 0

\* lib.go 121-122: without the leading ">" and the trailing ";"
StripElement(elementText) ==
    TrimSuffix(TrimSpace(TrimPrefix(elementText, <<">">>)), <<";">>)

\* lib.go 125: the place of the first ">" of the stripped text
FirstSep(stripped) == Index(stripped, <<">">>)

\* lib.go 129
AttributesPart(stripped) == SubSeq(stripped, 1, FirstSep(stripped) - 1)

\* lib.go 130
Remainder(stripped) == SubSeq(stripped, FirstSep(stripped) + 1, Len(stripped))

\* lib.go 133: the place of the first ">" of the remainder
SecondSep(stripped) == Index(Remainder(stripped), <<">">>)

\* lib.go 137
IdPart(stripped) ==
    TrimSpace(SubSeq(Remainder(stripped), 1, SecondSep(stripped) - 1))

\* lib.go 138
ContentPart(stripped) ==
    SubSeq(Remainder(stripped), SecondSep(stripped) + 1, Len(Remainder(stripped)))

parseElement(elementText, env) ==
    LET stripped == StripElement(elementText)
        id       == IdPart(stripped)
        content  == SubstituteEnv(NormalizeContent(ContentPart(stripped)), env)
        matches  == FindAllAttrs(AttributesPart(stripped), 1)
        elementMap ==
            MapSet(MapSet(MapSet(AttrMap(matches, EmptyMap),
                                 KeyField, StringValue(id)),
                          ContentField, StringValue(content)),
                   ContentsField, StringValue(content))
    IN  IF FirstSep(stripped) = 0 THEN [err |-> ErrFirstSep, element |-> EmptyMap]
        ELSE IF SecondSep(stripped) = 0 THEN [err |-> ErrSecondSep, element |-> EmptyMap]
        ELSE IF EmptyId(id, content) THEN [err |-> ErrEmptyId, element |-> EmptyMap]
        ELSE IF AttrError(matches) THEN [err |-> ErrNoAttrs, element |-> EmptyMap]
        ELSE [err |-> NoError, element |-> elementMap]

(***************************************************************************)
(* The state of one call of Parse or of ParseEnv.                          *)
(***************************************************************************)

VARIABLES
    lines,       \* strings.Split(text, "\n")
    fn,          \* the function called: "Parse" or "ParseEnv"
    pc,          \* "call", "loop", "returned", or "panicked"
    i,           \* the place in lines of the line the loop is at
    inBody,      \* Parse
    inEnv,       \* Parse and ParseEnv
    currentEnv,  \* Parse
    envMap,      \* ParseEnv
    stack,       \* Parse: the stackItems [element, indent]
    result,      \* Parse: the places in heap of the root elements
    heap,        \* the element maps Parse has placed, in the order of placing
    lexed,       \* history: the spans Parse handed to parseElement
    ret          \* what the call returned

vars == <<lines, fn, pc, i, inBody, inEnv, currentEnv, envMap, stack, result,
          heap, lexed, ret>>

NotReturned == [forest |-> <<>>, table |-> EmptyMap, tableNil |-> TRUE, err |-> NoError]

\* a DOCTYPE check that tests only the length of lines
HasDoctypeLengthOnly(ls) == Len(ls) > 0

\* lib.go 16 and 217
HasDoctype(ls) == Contains(ls[1], DoctypeMarker)

\* lib.go 34 and 226, on the trimmed line
IsSkipped(line) ==
    \/ line = <<>>
    \/ HasPrefix(line, BlockOpen)
    \/ HasPrefix(line, BlockClose)
    \/ HasPrefix(line, LineComment)

\* lib.go 39-50
IsSectionMarker(line) == line \in {EnvMarker, BeginMarker, EndMarker}

\* lib.go 53 and 238
IsEnvLine(line) == HasPrefix(line, DeclPrefix)

\* lib.go 70
IsElementLine(line) == HasPrefix(line, <<">">>)

\* a declaration that keeps the first value declared for a name
DeclareFirstWins(env, segment) ==
    LET declaration == TrimSpace(segment)
        parts == SplitN2(SubSeq(declaration, 4, Len(declaration)), "=")
    IN  IF /\ HasPrefix(declaration, DeclPrefix) /\ Len(parts) = 2
           /\ TrimSpace(parts[1]) \notin DOMAIN env
        THEN MapSet(env, TrimSpace(parts[1]), TrimSpace(parts[2]))
        ELSE env

\* a declaration that records a segment without "=" with an empty value
DeclareBare(env, segment) ==
    LET declaration == TrimSpace(segment)
        parts == SplitN2(SubSeq(declaration, 4, Len(declaration)), "=")
    IN  IF HasPrefix(declaration, DeclPrefix)
        THEN MapSet(env, TrimSpace(parts[1]),
                    IF Len(parts) = 2 THEN TrimSpace(parts[2]) ELSE <<>>)
        ELSE env

\* lib.go 56-64 and 241-249: one declaration of an Env line
Declare(env, segment) ==
    LET declaration == TrimSpace(segment)
        parts == SplitN2(SubSeq(declaration, 4, Len(declaration)), "=")
    IN  IF HasPrefix(declaration, DeclPrefix) /\ Len(parts) = 2
        THEN MapSet(env, TrimSpace(parts[1]), TrimSpace(parts[2]))
        ELSE env

RECURSIVE DeclareAll(_, _)
DeclareAll(env, declarations) ==
    IF Len(declarations) = 0 THEN env
    ELSE DeclareAll(Declare(env, Head(declarations)), Tail(declarations))

\* lib.go 54-65 and 239-250
DeclareLine(env, line) == DeclareAll(env, Split(line, ";"))

\* lib.go 72-82: the text of the element that starts at line k and the last
\* line the inner loop moved the outer index to (k when the first line ends
\* with ";", and also when no later line does: i is set only at the break)
Collect(ls, k) ==
    LET line == TrimSpace(ls[k])
        ends == {j \in (k + 1)..Len(ls) : HasSuffix(TrimSpace(ls[j]), <<";">>)}
    IN  IF HasSuffix(line, <<";">>)
        THEN [fullContent |-> line, index |-> k, last |-> k]
        ELSE IF ends = {}
        THEN [fullContent |-> Join(<<line>> \o SubSeq(ls, k + 1, Len(ls)), "\n"),
              index |-> k, last |-> Len(ls)]
        ELSE [fullContent |-> Join(<<line>> \o SubSeq(ls, k + 1, Min(ends)), "\n"),
              index |-> Min(ends), last |-> Min(ends)]

\* a pop that leaves the entries of equal indentation on the stack
RECURSIVE PopStackGreater(_, _)
PopStackGreater(stk, indent) ==
    IF Len(stk) > 0 /\ stk[Len(stk)].indent > indent
    THEN PopStackGreater(SubSeq(stk, 1, Len(stk) - 1), indent)
    ELSE stk

\* a pop of at most one entry
PopStackOnce(stk, indent) ==
    IF Len(stk) > 0 /\ stk[Len(stk)].indent >= indent
    THEN SubSeq(stk, 1, Len(stk) - 1)
    ELSE stk

\* lib.go 90-92
RECURSIVE PopStack(_, _)
PopStack(stk, indent) ==
    IF Len(stk) > 0 /\ stk[Len(stk)].indent >= indent
    THEN PopStack(SubSeq(stk, 1, Len(stk) - 1), indent)
    ELSE stk

\* an insertion of the new element before its siblings
PrependChild(children, element) == <<element>> \o children

\* lib.go 100
AppendChild(children, element) == Append(children, element)

\* lib.go 97-99
WithChildren(parent) ==
    IF ChildrenField \in DOMAIN parent THEN parent
    ELSE MapSet(parent, ChildrenField, SliceValue(<<>>))

\* a failure that hands back the roots placed so far
ElementFailurePartial(roots, err) ==
    [forest |-> roots, table |-> EmptyMap, tableNil |-> TRUE, err |-> err]

\* lib.go 85-87: what Parse returns when parseElement fails
ElementFailure(roots, err) ==
    [forest |-> <<>>, table |-> EmptyMap, tableNil |-> TRUE, err |-> err]

(***************************************************************************)
(* Parse (lib.go 12-112).                                                  *)
(***************************************************************************)

\* lib.go 14-28
ParseBegin ==
    /\ fn = "Parse"
    /\ pc = "call"
    /\ IF HasDoctype(lines)
       THEN pc' = "loop" /\ ret' = ret
       ELSE /\ pc' = "returned"
            /\ ret' = [forest |-> <<>>, table |-> EmptyMap, tableNil |-> TRUE,
                       err |-> ErrDoctype]
    /\ UNCHANGED <<lines, fn, i, inBody, inEnv, currentEnv, envMap, stack,
                   result, heap, lexed>>

AtLine == pc = "loop" /\ i <= Len(lines)

\* lib.go 34-36
ParseSkip ==
    /\ fn = "Parse"
    /\ AtLine
    /\ IsSkipped(TrimSpace(lines[i]))
    /\ i' = i + 1
    /\ UNCHANGED <<lines, fn, pc, inBody, inEnv, currentEnv, envMap, stack,
                   result, heap, lexed, ret>>

\* lib.go 39-50
ParseMarker ==
    /\ fn = "Parse"
    /\ AtLine
    /\ LET line == TrimSpace(lines[i])
       IN  /\ ~IsSkipped(line)
           /\ IsSectionMarker(line)
           /\ inEnv' = IF line = EnvMarker THEN TRUE
                       ELSE IF line = BeginMarker THEN FALSE
                       ELSE inEnv
           /\ inBody' = IF line = BeginMarker THEN TRUE
                        ELSE IF line = EndMarker THEN FALSE
                        ELSE inBody
    /\ i' = i + 1
    /\ UNCHANGED <<lines, fn, pc, currentEnv, envMap, stack, result, heap,
                   lexed, ret>>

\* lib.go 53-67
ParseDeclarations ==
    /\ fn = "Parse"
    /\ AtLine
    /\ LET line == TrimSpace(lines[i])
       IN  /\ ~IsSkipped(line)
           /\ ~IsSectionMarker(line)
           /\ inEnv /\ IsEnvLine(line)
           /\ currentEnv' = DeclareLine(currentEnv, line)
    /\ i' = i + 1
    /\ UNCHANGED <<lines, fn, pc, inBody, inEnv, envMap, stack, result, heap,
                   lexed, ret>>

\* lib.go 70-108
ParseElement ==
    /\ fn = "Parse"
    /\ AtLine
    /\ LET line == TrimSpace(lines[i])
           indent == countIndentation(lines[i])
           c == Collect(lines, i)
           parsed == parseElement(c.fullContent, currentEnv)
           popped == PopStack(stack, indent)
           place == Len(heap) + 1
           parent == heap[popped[Len(popped)].element]
       IN  /\ ~IsSkipped(line)
           /\ ~IsSectionMarker(line)
           /\ ~(inEnv /\ IsEnvLine(line))
           /\ inBody /\ IsElementLine(line)
           /\ lexed' = Append(lexed, [first |-> i, last |-> c.last, indent |-> indent,
                                      text |-> c.fullContent])
           /\ IF parsed.err # NoError
              THEN /\ pc' = "returned"
                   /\ ret' = ElementFailure(result, parsed.err)
                   /\ UNCHANGED <<i, stack, result, heap>>
              ELSE IF Len(popped) > 0 /\ WithChildren(parent)[ChildrenField].kind # "slice"
              THEN \* the type assertion parent["children"].([]interface{}) panics
                   /\ pc' = "panicked"
                   /\ UNCHANGED <<i, stack, result, heap, ret>>
              ELSE /\ IF Len(popped) > 0
                      THEN /\ heap' = Append(
                                 [heap EXCEPT ![popped[Len(popped)].element] =
                                     MapSet(parent, ChildrenField,
                                            SliceValue(AppendChild(
                                                WithChildren(parent)[ChildrenField].list,
                                                place)))],
                                 parsed.element)
                           /\ result' = result
                      ELSE /\ heap' = Append(heap, parsed.element)
                           /\ result' = Append(result, place)
                   /\ stack' = Append(popped, [element |-> place, indent |-> indent])
                   /\ i' = c.index + 1
                   /\ UNCHANGED <<pc, ret>>
    /\ UNCHANGED <<lines, fn, inBody, inEnv, currentEnv, envMap>>

\* a line that is none of the above: the loop goes on to the next line
ParseOther ==
    /\ fn = "Parse"
    /\ AtLine
    /\ LET line == TrimSpace(lines[i])
       IN  /\ ~IsSkipped(line)
           /\ ~IsSectionMarker(line)
           /\ ~(inEnv /\ IsEnvLine(line))
           /\ ~(inBody /\ IsElementLine(line))
    /\ i' = i + 1
    /\ UNCHANGED <<lines, fn, pc, inBody, inEnv, currentEnv, envMap, stack,
                   result, heap, lexed, ret>>

\* lib.go 111
ParseReturn ==
    /\ fn = "Parse"
    /\ pc = "loop"
    /\ i > Len(lines)
    /\ pc' = "returned"
    /\ ret' = [forest |-> result, table |-> EmptyMap, tableNil |-> TRUE,
               err |-> NoError]
    /\ UNCHANGED <<lines, fn, i, inBody, inEnv, currentEnv, envMap, stack,
                   result, heap, lexed>>

(***************************************************************************)
(* ParseEnv (lib.go 213-255).                                              *)
(***************************************************************************)

\* a scan that goes on to the END marker
StopsEnvParsingAtEnd(line) == line = EndMarker

\* lib.go 234-235: the case of the switch that leaves the loop
StopsEnvParsing(line) == line = BeginMarker

\* lib.go 214-221
ParseEnvBegin ==
    /\ fn = "ParseEnv"
    /\ pc = "call"
    /\ IF HasDoctype(lines)
       THEN pc' = "loop" /\ ret' = ret
       ELSE /\ pc' = "returned"
            /\ ret' = [forest |-> <<>>, table |-> EmptyMap, tableNil |-> TRUE,
                       err |-> ErrDoctype]
    /\ UNCHANGED <<lines, fn, i, inBody, inEnv, currentEnv, envMap, stack,
                   result, heap, lexed>>

\* lib.go 226-228
ParseEnvSkip ==
    /\ fn = "ParseEnv"
    /\ AtLine
    /\ IsSkipped(TrimSpace(lines[i]))
    /\ i' = i + 1
    /\ UNCHANGED <<lines, fn, pc, inBody, inEnv, currentEnv, envMap, stack,
                   result, heap, lexed, ret>>

\* lib.go 231-233
ParseEnvMarker ==
    /\ fn = "ParseEnv"
    /\ AtLine
    /\ TrimSpace(lines[i]) = EnvMarker
    /\ inEnv' = TRUE
    /\ i' = i + 1
    /\ UNCHANGED <<lines, fn, pc, inBody, currentEnv, envMap, stack, result,
                   heap, lexed, ret>>

\* lib.go 238-251; a line that is no declaration line changes nothing
ParseEnvLine ==
    /\ fn = "ParseEnv"
    /\ AtLine
    /\ LET line == TrimSpace(lines[i])
       IN  /\ ~IsSkipped(line)
           /\ line # EnvMarker
           /\ ~StopsEnvParsing(line)
           /\ envMap' = IF inEnv /\ IsEnvLine(line)
                        THEN DeclareLine(envMap, line)
                        ELSE envMap
    /\ i' = i + 1
    /\ UNCHANGED <<lines, fn, pc, inBody, inEnv, currentEnv, stack, result,
                   heap, lexed, ret>>

\* lib.go 234-235 (break envParsing) and the end of the loop, then 254
ParseEnvReturn ==
    /\ fn = "ParseEnv"
    /\ pc = "loop"
    /\ \/ i > Len(lines)
       \/ i <= Len(lines) /\ StopsEnvParsing(TrimSpace(lines[i]))
    /\ pc' = "returned"
    /\ ret' = [forest |-> <<>>, table |-> envMap, tableNil |-> FALSE,
               err |-> NoError]
    /\ UNCHANGED <<lines, fn, i, inBody, inEnv, currentEnv, envMap, stack,
                   result, heap, lexed>>

Next ==
    \/ ParseBegin
    \/ ParseSkip
    \/ ParseMarker
    \/ ParseDeclarations
    \/ ParseElement
    \/ ParseOther
    \/ ParseReturn
    \/ ParseEnvBegin
    \/ ParseEnvSkip
    \/ ParseEnvMarker
    \/ ParseEnvLine
    \/ ParseEnvReturn

(***************************************************************************)
(* The documents the calls are made on.  A document is a head, up to a     *)
(* bounded number of lines drawn from a pool, and a tail.                  *)
(***************************************************************************)

\* >>>DOCTYPE=JTL;
DoctypeLine == <<">",">",">","D","O","C","T","Y","P","E","=","J","T","L",";">>

BlankLine == <<>>

\* >//>c
CommentLine == <<">","/","/",">","c">>

\* /*DOCTYPE=JTL*/
MarkedComment == <<"/","*","D","O","C","T","Y","P","E","=","J","T","L","*","/">>

\* >>>A=v;
DeclA == <<">",">",">","A","=","v",";">>

\* >a="b">k>c;
ElemPlain == <<">","a","=","\"","b","\"",">","k",">","c",";">>

RECURSIVE SeqsUpTo(_, _)
SeqsUpTo(S, n) ==
    IF n = 0 THEN {<<>>}
    ELSE LET shorter == SeqsUpTo(S, n - 1)
         IN  shorter \cup {Append(q, x) : q \in {r \in shorter : Len(r) = n - 1}, x \in S}

\* strings.Split yields at least one line, also for the empty text
Documents(Heads, Pool, n, Tails) ==
    {d \in {h \o m \o t : h \in Heads, m \in SeqsUpTo(Pool, n), t \in Tails} :
        Len(d) >= 1}

InitOn(docs) ==
    /\ lines \in docs
    /\ fn \in {"Parse", "ParseEnv"}
    /\ pc = "call"
    /\ i = 1
    /\ inBody = FALSE
    /\ inEnv = FALSE
    /\ currentEnv = EmptyMap
    /\ envMap = EmptyMap
    /\ stack = <<>>
    /\ result = <<>>
    /\ heap = <<>>
    /\ lexed = <<>>
    /\ ret = NotReturned

\* the heads every family of documents has: no body, a body, and an Env
\* section with a comment before it
PlainHeads ==
    {<<DoctypeLine>>,
     <<DoctypeLine, BeginMarker>>,
     <<DoctypeLine, CommentLine, EnvMarker, DeclA, BeginMarker>>}

(***************************************************************************)
(* Documents for the DOCTYPE check: what precedes the first line that      *)
(* holds the marker, if any does.                                          *)
(***************************************************************************)

MaxPreamble == 3

PreamblePool == {DoctypeLine, BlankLine, MarkedComment, BeginMarker}

PreambleTails ==
    {<<>>, <<EnvMarker, DeclA, BeginMarker, ElemPlain, EndMarker>>}

InitDoctype == InitOn(Documents({<<>>}, PreamblePool, MaxPreamble, PreambleTails))

SpecDoctype == InitDoctype /\ [][Next]_vars

HoldsMarker(ls) == \E k \in 1..Len(ls) : Contains(ls[k], DoctypeMarker)

\* the first line that is neither blank nor a comment line, 0 when every
\* line is one
FirstSignificant(ls) ==
    LET sig == {k \in 1..Len(ls) : ~IsSkipped(TrimSpace(ls[k]))}
    IN  IF sig = {} THEN 0 ELSE Min(sig)

\* C1: on a document no line of which holds DOCTYPE=JTL, Parse and ParseEnv
\* never enter their loop and return the missing-DOCTYPE error with no
\* forest and no table, whatever else the document holds.
C1_MissingDoctypeFails ==
    ~HoldsMarker(lines) =>
        /\ pc \in {"call", "returned"}
        /\ heap = <<>> /\ envMap = EmptyMap
        /\ pc = "returned" =>
              /\ ret.err = ErrDoctype
              /\ ret.forest = <<>>
              /\ ret.tableNil

\* a document with an Env section, a body and a well-formed element but
\* without the marker has been rejected
C1_Witness ==
    /\ ~HoldsMarker(lines)
    /\ \E k \in 1..Len(lines) : lines[k] = ElemPlain
    /\ \E k \in 1..Len(lines) : lines[k] = EnvMarker
    /\ pc = "returned"
    /\ ret.err = ErrDoctype

\* C9: the DOCTYPE check is made on the first line that is neither blank
\* nor a comment: the call is rejected with the missing-DOCTYPE error
\* exactly when that line does not hold the marker.
C9_FirstSignificantLineDecides ==
    pc = "returned" =>
        (ret.err = ErrDoctype <=>
            ~(/\ FirstSignificant(lines) # 0
              /\ Contains(lines[FirstSignificant(lines)], DoctypeMarker)))

(***************************************************************************)
(* Documents for the Env section: a head that opens the section or does    *)
(* not, declaration lines, and a body of elements that refer to the table. *)
(***************************************************************************)

MaxDeclLines == 2

\* >>>A=w; >>>B=$env:A
DeclTwo ==
    <<">",">",">","A","=","w",";"," ",">",">",">","B","=","$","e","n","v",":","A">>

\* (blank)>>>B; >>> C = v=w ;
DeclLoose ==
    <<" ",">",">",">","B",";"," ",">",">",">"," ","C"," ","="," ","v","=","w"," ",";">>

\* >>>D
DeclBare == <<">",">",">","D">>

\* >a="b">k> $env:A ;
RefA == <<">","a","=","\"","b","\"",">","k",">"," ","$","e","n","v",":","A"," ",";">>

\* >a="b">k>$env:B;
RefB == <<">","a","=","\"","b","\"",">","k",">","$","e","n","v",":","B",";">>

\* >a="b">k>$env: C;
RefC == <<">","a","=","\"","b","\"",">","k",">","$","e","n","v",":"," ","C",";">>

\* >a="b">k>$env:Z;
RefZ == <<">","a","=","\"","b","\"",">","k",">","$","e","n","v",":","Z",";">>

EnvHeads ==
    {<<DoctypeLine>>,
     <<DoctypeLine, EnvMarker>>,
     <<DoctypeLine, CommentLine, EnvMarker, BlankLine>>}

EnvPool == {DeclA, DeclTwo, DeclLoose, DeclBare}

EnvTails ==
    {<<>>,
     <<BeginMarker, RefA, RefB, RefC, RefZ, EndMarker>>,
     <<BeginMarker, DeclA>>}

InitEnv == InitOn(Documents(EnvHeads, EnvPool, MaxDeclLines, EnvTails))

SpecEnv == InitEnv /\ [][Next]_vars

\* line k is a declaration line of the Env section: after an ENV marker,
\* before any BEGIN marker, not skipped, beginning with ">>>"
InEnvSection(ls, k) ==
    /\ \E j \in 1..(k - 1) : TrimSpace(ls[j]) = EnvMarker
    /\ \A m \in 1..k : TrimSpace(ls[m]) # BeginMarker
    /\ ~IsSkipped(TrimSpace(ls[k]))
    /\ HasPrefix(TrimSpace(ls[k]), DeclPrefix)

Segments(ls, k) == Split(TrimSpace(ls[k]), ";")

\* a segment >>>NAME=VALUE
IsDeclaration(segment) ==
    HasPrefix(TrimSpace(segment), DeclPrefix) /\ Contains(segment, <<"=">>)

DeclName(segment) ==
    LET body == SubSeq(TrimSpace(segment), 4, Len(TrimSpace(segment)))
    IN  TrimSpace(SubSeq(body, 1, Index(body, <<"=">>) - 1))

DeclValue(segment) ==
    LET body == SubSeq(TrimSpace(segment), 4, Len(TrimSpace(segment)))
    IN  TrimSpace(SubSeq(body, Index(body, <<"=">>) + 1, Len(body)))

\* the places <<line, segment>> of the declarations of the Env section
DeclPlaces(ls) ==
    {p \in UNION {{<<k, n>> : n \in 1..Len(Segments(ls, k))} :
                     k \in {m \in 1..Len(ls) : InEnvSection(ls, m)}} :
        IsDeclaration(Segments(ls, p[1])[p[2]])}

DeclAt(ls, p) == Segments(ls, p[1])[p[2]]

Later(p, q) == q[1] > p[1] \/ (q[1] = p[1] /\ q[2] > p[2])

DeclaredNames(ls) == {DeclName(DeclAt(ls, p)) : p \in DeclPlaces(ls)}

\* C3: the table ParseEnv returns maps the trimmed name of every
\* declaration >>>NAME=VALUE of the Env section, split at the first "=",
\* to the trimmed value of the last declaration of that name in document
\* order, also when several declarations share one line.
C3_LastDeclarationWins ==
    (fn = "ParseEnv" /\ pc = "returned" /\ ret.err = NoError) =>
        \A p \in DeclPlaces(lines) :
            (~\E q \in DeclPlaces(lines) :
                  /\ Later(p, q)
                  /\ DeclName(DeclAt(lines, q)) = DeclName(DeclAt(lines, p)))
            => /\ DeclName(DeclAt(lines, p)) \in DOMAIN ret.table
               /\ ret.table[DeclName(DeclAt(lines, p))] = DeclValue(DeclAt(lines, p))

\* ParseEnv has returned a table for a document that declares a name twice
\* with different values, and has a line with two declarations
C3_Witness ==
    /\ fn = "ParseEnv" /\ pc = "returned" /\ ret.err = NoError
    /\ \E p, q \in DeclPlaces(lines) :
          /\ Later(p, q)
          /\ DeclName(DeclAt(lines, q)) = DeclName(DeclAt(lines, p))
          /\ DeclValue(DeclAt(lines, q)) # DeclValue(DeclAt(lines, p))
          /\ ret.table[DeclName(DeclAt(lines, q))] # DeclValue(DeclAt(lines, p))
    /\ \E p, q \in DeclPlaces(lines) : p[1] = q[1] /\ p[2] # q[2]

\* C10: a segment of the Env section without "=" adds no entry and makes
\* neither function fail: the names of the table are exactly the names of
\* the declarations with "=", ParseEnv fails only for a missing DOCTYPE, an
\* error of Parse other than that comes from a body element, and a
\* document without declarations yields an empty, non-nil table.
C10_BareSegmentsDropped ==
    /\ (fn = "ParseEnv" /\ pc = "returned") =>
          /\ ret.err # NoError => (ret.err = ErrDoctype /\ ~HasDoctype(lines))
          /\ ret.err = NoError =>
                /\ ~ret.tableNil
                /\ DOMAIN ret.table = DeclaredNames(lines)
                /\ DeclPlaces(lines) = {} => ret.table = EmptyMap
    /\ fn = "Parse" =>
          /\ DOMAIN currentEnv \subseteq DeclaredNames(lines)
          /\ (pc = "returned" /\ ret.err \notin {NoError, ErrDoctype}) =>
                /\ lexed # <<>>
                /\ lexed[Len(lexed)].first = i
                /\ inBody /\ ~inEnv
          /\ (pc = "returned" /\ ret.err = NoError) =>
                DOMAIN currentEnv = DeclaredNames(lines)

\* ParseEnv has returned the table of a section that holds segments without
\* "=" beside a declaration with one
C10_Witness ==
    /\ fn = "ParseEnv" /\ pc = "returned" /\ ret.err = NoError
    /\ \E k \in 1..Len(lines) : InEnvSection(lines, k) /\ lines[k] = DeclLoose
    /\ \E k \in 1..Len(lines) : InEnvSection(lines, k) /\ lines[k] = DeclBare
    /\ <<"C">> \in DOMAIN ret.table
    /\ <<"B">> \notin DOMAIN ret.table
    /\ <<"D">> \notin DOMAIN ret.table

\* the normalized content of the span lexed as element k
NormalizedContent(k) == NormalizeContent(ContentPart(StripElement(lexed[k].text)))

IsEnvRef(content) == HasPrefix(content, EnvRefPrefix)

\* the name an $env: reference names, without the blanks around it
RefName(content) == TrimSpace(SubSeq(content, Len(EnvRefPrefix) + 1, Len(content)))

\* C2: an element whose normalized content is $env:X has, as Content and
\* as Contents, the table's value for X taken as it stands (not resolved
\* again) when X is in the table, and the literal $env:X when it is not;
\* an unresolved reference does not make Parse fail.
C2_WholeReferenceSubstituted ==
    fn = "Parse" =>
        /\ \A k \in 1..Len(heap) :
              IsEnvRef(NormalizedContent(k)) =>
                 LET c == NormalizedContent(k)
                     out == IF RefName(c) \in DOMAIN currentEnv
                            THEN currentEnv[RefName(c)]
                            ELSE c
                 IN  /\ heap[k][ContentField] = StringValue(out)
                     /\ heap[k][ContentsField] = StringValue(out)
        /\ (pc = "returned" /\ ret.err \notin {NoError, ErrDoctype}) =>
              ~IsEnvRef(NormalizedContent(Len(lexed)))

\* Parse has returned a forest with an unresolved reference left as it
\* stood and a resolved one whose value is itself a reference to a name of
\* the table
C2_Witness ==
    /\ fn = "Parse" /\ pc = "returned" /\ ret.err = NoError
    /\ \E k \in 1..Len(heap) :
          /\ IsEnvRef(NormalizedContent(k))
          /\ RefName(NormalizedContent(k)) \notin DOMAIN currentEnv
          /\ heap[k][ContentField].str = NormalizedContent(k)
    /\ \E k \in 1..Len(heap) :
          /\ IsEnvRef(NormalizedContent(k))
          /\ RefName(NormalizedContent(k)) \in DOMAIN currentEnv
          /\ IsEnvRef(heap[k][ContentField].str)
          /\ RefName(heap[k][ContentField].str) \in DOMAIN currentEnv

(***************************************************************************)
(* Documents for the element lexer: bodies of well-formed and malformed    *)
(* one-line elements.                                                      *)
(***************************************************************************)

MaxElements == 2

\* >a="b">k>;
ElemEmpty == <<">","a","=","\"","b","\"",">","k",">",";">>

\* >x>k>c;
ElemNoAttrs == <<">","x",">","k",">","c",";">>

\* >a="b">>c;
ElemNoKey == <<">","a","=","\"","b","\"",">",">","c",";">>

\* >a="b";
ElemNoSep == <<">","a","=","\"","b","\"",";">>

\* >KEY="b">k>c;
ElemKeyAttr == <<">","K","E","Y","=","\"","b","\"",">","k",">","c",";">>

ElementPool == {ElemPlain, ElemEmpty, ElemNoAttrs, ElemNoKey, ElemNoSep, ElemKeyAttr}

ElementTails == {<<>>, <<EndMarker>>}

InitElement == InitOn(Documents(PlainHeads, ElementPool, MaxElements, ElementTails))

SpecElement == InitElement /\ [][Next]_vars

\* the attribute matches of the span lexed as element k
AttrMatches(k) == FindAllAttrs(AttributesPart(StripElement(lexed[k].text)), 1)

\* the entries of an element map that are not its structural fields
Attributes(element) ==
    DOMAIN element \ {KeyField, ContentField, ContentsField, ChildrenField}

\* the span lexed as element k lacks a separator, a key or an attribute
Malformed(k) ==
    LET stripped == StripElement(lexed[k].text)
    IN  \/ Cardinality({n \in 1..Len(stripped) : stripped[n] = ">"}) < 2
        \/ IdPart(stripped) = <<>>
        \/ AttrMatches(k) = <<>>

\* Parse has returned an error and no forest
Failed == pc = "returned" /\ ret.err # NoError /\ ret.forest = <<>>

\* C4: every element of the forest has a non-empty key and at least one
\* entry beside KEY, Content, Contents and children, and a span whose
\* attribute text has no identifier="value" match makes Parse fail.
C4_KeyAndAttribute ==
    fn = "Parse" =>
        /\ \A k \in 1..Len(heap) :
              /\ heap[k][KeyField].str # <<>>
              /\ Attributes(heap[k]) # {}
        /\ \A k \in 1..Len(lexed) : AttrMatches(k) = <<>> => Failed

C8_AllOrNothing ==
    fn = "Parse" =>
        /\ (pc = "returned" /\ ret.err # NoError) => ret.forest = <<>>
        /\ \A k \in 1..Len(lexed) : Malformed(k) => Failed
        /\ (~HasDoctype(lines) /\ pc # "call") => Failed

\* Parse has failed on a malformed element after it had placed others
C8_Witness ==
    /\ fn = "Parse" /\ Failed
    /\ ret.err \in {ErrFirstSep, ErrSecondSep, ErrEmptyId, ErrNoAttrs}
    /\ result # <<>>
    /\ Len(heap) >= 1

(***************************************************************************)
(* Documents for the nesting: bodies of elements at several indentations.  *)
(***************************************************************************)

MaxNested == 3

\* (one blank)>a="b">k>c;
ElemIndent1 == <<" ",">","a","=","\"","b","\"",">","k",">","c",";">>

\* (a tab and a blank)>a="b">k>c;
ElemIndent2 == <<"\t"," ",">","a","=","\"","b","\"",">","k",">","c",";">>

\* (one blank)>a="b">k>c   without the terminator: the next line ends it
ElemOpen1 == <<" ",">","a","=","\"","b","\"",">","k",">","c">>

NestHeads ==
    {<<DoctypeLine>>,
     <<DoctypeLine, CommentLine, EnvMarker, DeclA, BeginMarker>>}

NestPool == {ElemPlain, ElemIndent1, ElemIndent2, ElemOpen1}

InitNest == InitOn(Documents(NestHeads, NestPool, MaxNested, {<<>>}))

SpecNest == InitNest /\ [][Next]_vars

\* the places of the children of element k
Children(k) ==
    IF ChildrenField \in DOMAIN heap[k] /\ heap[k][ChildrenField].kind = "slice"
    THEN {heap[k][ChildrenField].list[n] : n \in 1..Len(heap[k][ChildrenField].list)}
    ELSE {}

Roots == {result[n] : n \in 1..Len(result)}

\* the indentation of the first line of the span lexed as element k
FirstLineIndent(k) == countIndentation(lines[lexed[k].first])

\* the elements lexed before k with a smaller indentation
SmallerBefore(k) == {j \in 1..(k - 1) : FirstLineIndent(j) < FirstLineIndent(k)}

\* C5: the parent of an element is the nearest element lexed before it
\* whose first line is indented less, and the element is a root exactly
\* when there is none.
C5_ParentIsNearestShallower ==
    (fn = "Parse" /\ Len(heap) = Len(lexed)) =>
        \A k \in 1..Len(heap) :
            /\ k \in Roots <=> SmallerBefore(k) = {}
            /\ \A j \in 1..Len(heap) :
                  k \in Children(j) <=>
                      (SmallerBefore(k) # {} /\ j = Max(SmallerBefore(k)))

\* Parse has returned a forest in which an element is the child of an
\* element that is not the one lexed just before it
C5_Witness ==
    /\ fn = "Parse" /\ pc = "returned" /\ ret.err = NoError
    /\ \E j, k \in 1..Len(heap) : k \in Children(j) /\ j < k - 1

\* the children of element k, in the order of their list
ChildList(k) ==
    IF ChildrenField \in DOMAIN heap[k] /\ heap[k][ChildrenField].kind = "slice"
    THEN heap[k][ChildrenField].list
    ELSE <<>>

\* the pre-order traversal of the trees whose roots are the elements of seq
RECURSIVE PreOrder(_)
PreOrder(seq) ==
    IF Len(seq) = 0 THEN <<>>
    ELSE <<Head(seq)>> \o PreOrder(ChildList(Head(seq))) \o PreOrder(Tail(seq))

\* C12: the pre-order traversal of the forest is the sequence of the lexed
\* elements in document order, each once; every child is indented more
\* than its parent; and the forest Parse returns is that forest.
C12_PreOrderIsDocumentOrder ==
    (fn = "Parse" /\ Len(heap) = Len(lexed)) =>
        /\ PreOrder(result) = [n \in 1..Len(lexed) |-> n]
        /\ \A j, k \in 1..Len(heap) :
              k \in Children(j) => FirstLineIndent(k) > FirstLineIndent(j)
        /\ \A k \in 2..Len(lexed) : lexed[k - 1].first < lexed[k].first
        /\ (pc = "returned" /\ ret.err = NoError) => ret.forest = result

\* Parse has returned a forest in which an element has several children
C12_Witness ==
    /\ fn = "Parse" /\ pc = "returned" /\ ret.err = NoError
    /\ Len(ret.forest) >= 1
    /\ \E k \in 1..Len(heap) : Len(ChildList(k)) >= 2

(***************************************************************************)
(* Documents for the multi-line spans: an element that opens a [[ block,   *)
(* lines of the block, and the line that closes it.                        *)
(***************************************************************************)

MaxSpanLines == 3

\* >a="b">k>[[
ElemBracketOpen == <<">","a","=","\"","b","\"",">","k",">","[","[">>

\* (one blank)x;
InnerTerminated == <<" ","x",";">>

\* ]];
BracketClose == <<"]","]",";">>

SpanPool == {ElemBracketOpen, InnerTerminated, BracketClose, ElemPlain}

InitSpan == InitOn(Documents(PlainHeads, SpanPool, MaxSpanLines, {<<>>, <<EndMarker>>}))

SpecSpan == InitSpan /\ [][Next]_vars

\* a [[ of the text is followed by no ]]
BracketOpenIn(text) ==
    \E p \in 1..(Len(text) - 1) :
        /\ SubSeq(text, p, p + 1) = <<"[", "[">>
        /\ ~\E q \in (p + 2)..(Len(text) - 1) : SubSeq(text, q, q + 1) = <<"]", "]">>

\* the text of the lines first..last, as the lexer accumulates it
Accumulated(ls, first, last) ==
    Join(<<TrimSpace(ls[first])>> \o SubSeq(ls, first + 1, last), "\n")

\* the line at which the span that starts at line first ends when a line
\* that ends with ";" terminates it only if no [[ is open in the text
\* accumulated up to it; the last line when there is no such line
BracketAwareEnd(ls, first) ==
    LET ends == {l \in first..Len(ls) :
                    /\ HasSuffix(TrimSpace(ls[l]), <<";">>)
                    /\ ~BracketOpenIn(Accumulated(ls, first, l))}
    IN  IF ends = {} THEN Len(ls) ELSE Min(ends)

\* C6: the span of an element ends at the first line that ends with ";"
\* at which no [[ of the accumulated text is still open: a line that ends
\* with ";" inside an open [[ block does not terminate the element.
C6_BracketAwareTermination ==
    fn = "Parse" =>
        \A k \in 1..Len(lexed) :
            lexed[k].last = BracketAwareEnd(lines, lexed[k].first)

(***************************************************************************)
(* Documents for the content normaliser: an element whose content starts   *)
(* on the line after the key separator, content lines of two indentations, *)
(* blank lines, and a closing line.                                        *)
(***************************************************************************)

MaxContentLines == 4

\* >a="b">k>
ElemOpenBare == <<">","a","=","\"","b","\"",">","k",">">>

\* (four blanks)[[x
ContentDeep == <<" "," "," "," ","[","[","x">>

\* (two blanks)y
ContentShallow == <<" "," ","y">>

\* (two blanks)]];
ContentClose == <<" "," ","]","]",";">>

ContentPool == {ElemOpenBare, ContentDeep, ContentShallow, BlankLine, ContentClose}

InitContent == InitOn(Documents(NestHeads, ContentPool, MaxContentLines, {<<>>}))

SpecContent == InitContent /\ [][Next]_vars

\* the content of the span lexed as element k, as the source has it
SourceContent(k) == ContentPart(StripElement(lexed[k].text))

\* its lines
SourceLines(k) == Split(SourceContent(k), "\n")

\* the lines of the content Parse has stored for element k
OutputLines(k) == Split(heap[k][ContentField].str, "\n")

\* the places of the lines of sub that are not blank
NonBlank(sub) == {n \in 1..Len(sub) : ~IsBlank(sub[n])}

\* no blank line lies between two non-blank lines of sub
NoInteriorBlank(sub) ==
    \A n \in 1..Len(sub) :
        (Min(NonBlank(sub)) <= n /\ n <= Max(NonBlank(sub))) => n \in NonBlank(sub)

\* the content of element k has several lines, one of them not blank
MultiLine(k) == Len(SourceLines(k)) > 1 /\ NonBlank(SourceLines(k)) # {}

\* C11: the content of a multi-line element that starts on the line after
\* the key separator (and has no blank line inside) is the source content
\* with only its leading and trailing whitespace removed, so that every line
\* after the first keeps the leading whitespace it has in the source.
C11_OnlyOuterWhitespaceRemoved ==
    (fn = "Parse" /\ Len(heap) = Len(lexed)) =>
        \A k \in 1..Len(heap) :
            (/\ MultiLine(k)
             /\ IsBlank(SourceLines(k)[1])
             /\ NoInteriorBlank(SourceLines(k))) =>
                heap[k][ContentField].str = TrimSpace(SourceContent(k))

\* C17: with m the least indentation of the non-blank lines of a multi-line
\* content (that has no blank line inside), every line of the output is the
\* source line without its first m characters and its trailing blanks, so
\* that the indentation of any two lines differs in the output as it does
\* in the source.
C17_CommonIndentRemoved ==
    (fn = "Parse" /\ Len(heap) = Len(lexed)) =>
        \A k \in 1..Len(heap) :
            (MultiLine(k) /\ NoInteriorBlank(SourceLines(k))) =>
                LET sub   == SourceLines(k)
                    out   == OutputLines(k)
                    first == Min(NonBlank(sub))
                    m     == Min({countIndentation(sub[n]) : n \in NonBlank(sub)})
                IN  /\ Len(out) = Cardinality(NonBlank(sub))
                    /\ \A n \in NonBlank(sub) :
                          out[n - first + 1] =
                              TrimRight(SubSeq(sub[n], m + 1, Len(sub[n])), IndentChars)
                    /\ \A n, q \in NonBlank(sub) :
                          countIndentation(out[n - first + 1])
                                - countIndentation(out[q - first + 1])
                              = countIndentation(sub[n]) - countIndentation(sub[q])

\* C18: the output of a multi-line content has as many lines as the source
\* has from its first to its last non-blank line, and a blank line between
\* them is an empty line at the same place of the output.
C18_InteriorBlankLinesKept ==
    (fn = "Parse" /\ Len(heap) = Len(lexed)) =>
        \A k \in 1..Len(heap) :
            MultiLine(k) =>
                LET sub   == SourceLines(k)
                    out   == OutputLines(k)
                    first == Min(NonBlank(sub))
                    last  == Max(NonBlank(sub))
                IN  /\ Len(out) = last - first + 1
                    /\ \A n \in first..last :
                          IsBlank(sub[n]) => out[n - first + 1] = <<>>

(***************************************************************************)
(* Documents for the phases: section markers in any order, a declaration   *)
(* line, and well-formed and malformed element lines.                      *)
(***************************************************************************)

MaxPhaseLines == 3

\* >>>A=w;
DeclW == <<">",">",">","A","=","w",";">>

PhaseHeads ==
    {<<DoctypeLine>>,
     <<DoctypeLine, CommentLine, EnvMarker, DeclA>>,
     <<DoctypeLine, BeginMarker, ElemPlain, EndMarker>>}

PhasePool == {EnvMarker, BeginMarker, EndMarker, DeclW, ElemPlain, ElemNoSep}

InitPhase == InitOn(Documents(PhaseHeads, PhasePool, MaxPhaseLines, {<<>>}))

SpecPhase == InitPhase /\ [][Next]_vars

\* the places of the lines that are the marker, blanks around them aside
MarkerLines(ls, marker) == {k \in 1..Len(ls) : TrimSpace(ls[k]) = marker}

\* C13: ParseEnv never reads past the first BEGIN line; with a DOCTYPE it
\* never fails, whatever follows that line; and the table it returns holds
\* exactly the declarations that lie after an ENV marker and before the
\* first BEGIN line, each name with its last value there.
C13_ParseEnvStopsAtBegin ==
    fn = "ParseEnv" =>
        /\ MarkerLines(lines, BeginMarker) # {} =>
              i <= Min(MarkerLines(lines, BeginMarker))
        /\ (pc = "returned" /\ HasDoctype(lines)) =>
              /\ ret.err = NoError
              /\ ~ret.tableNil
              /\ DOMAIN ret.table = DeclaredNames(lines)
              /\ \A p \in DeclPlaces(lines) :
                    (~\E q \in DeclPlaces(lines) :
                          /\ Later(p, q)
                          /\ DeclName(DeclAt(lines, q)) = DeclName(DeclAt(lines, p)))
                    => ret.table[DeclName(DeclAt(lines, p))] = DeclValue(DeclAt(lines, p))

\* ParseEnv has returned the table of a document in which the first BEGIN
\* line is followed by an ENV marker and a declaration of another value
C13_Witness ==
    /\ fn = "ParseEnv" /\ pc = "returned" /\ ret.err = NoError
    /\ \E b, j, k \in 1..Len(lines) :
          /\ b < j /\ j < k
          /\ lines[b] = BeginMarker /\ lines[j] = EnvMarker /\ lines[k] = DeclW
          /\ <<"A">> \in DOMAIN ret.table
          /\ ret.table[<<"A">>] = <<"v">>

\* Parse has gone past a line that is the marker
Processed(marker) ==
    /\ pc \in {"loop", "returned"}
    /\ \E k \in MarkerLines(lines, marker) : k < i

\* C14: once Parse has processed an END line, no step adds an element,
\* changes the environment table, enters the Body or the Env phase, or
\* returns an error.
C14_NothingAfterEnd ==
    [][(fn = "Parse" /\ Processed(EndMarker)) =>
          /\ heap' = heap
          /\ result' = result
          /\ lexed' = lexed
          /\ currentEnv' = currentEnv
          /\ ~inBody'
          /\ inEnv' => inEnv
          /\ ret'.err = NoError]_vars

\* C15: in Parse the Env and the Body phase are never active together, and
\* once a BEGIN line has been processed no step changes the environment
\* table.
C15_TableFixedAfterBegin ==
    [][fn = "Parse" =>
          /\ ~(inEnv' /\ inBody')
          /\ Processed(BeginMarker) => currentEnv' = currentEnv]_vars

\* C20: no span Parse hands to parseElement starts at a line that begins
\* with the triple marker ">>>", so that such a line of the body yields
\* neither an element nor an element-format error; every span starts at a
\* line that begins with ">".
C20_TripleMarkerNotLexed ==
    fn = "Parse" =>
        \A k \in 1..Len(lexed) :
            /\ HasPrefix(TrimSpace(lines[lexed[k].first]), <<">">>)
            /\ ~HasPrefix(TrimSpace(lines[lexed[k].first]), DeclPrefix)

(***************************************************************************)
(* Documents for the comments: comment and blank lines between the lines   *)
(* of an element that spans several lines.                                 *)
(***************************************************************************)

MaxCommentLines == 3

\* /*n*/;
CommentTerminated == <<"/","*","n","*","/",";">>

CommentPool == {ElemOpenBare, CommentLine, CommentTerminated, BlankLine, InnerTerminated}

InitComment == InitOn(Documents(NestHeads, CommentPool, MaxCommentLines, {<<>>}))

SpecComment == InitComment /\ [][Next]_vars

\* the line is a comment line
IsCommentLine(line) ==
    \/ HasPrefix(TrimSpace(line), BlockOpen)
    \/ HasPrefix(TrimSpace(line), BlockClose)
    \/ HasPrefix(TrimSpace(line), LineComment)

IsNoCommentLine(line) == ~IsCommentLine(line)

\* the step of Parse or ParseEnv at a blank or comment line changes neither
\* the phase, nor the environment table, nor the forest
SkippedLinesChangeNothing ==
    [][(pc = "loop" /\ i <= Len(lines)
           /\ (IsBlank(lines[i]) \/ IsCommentLine(lines[i]))) =>
          /\ inBody' = inBody /\ inEnv' = inEnv
          /\ currentEnv' = currentEnv /\ envMap' = envMap
          /\ heap' = heap /\ result' = result /\ lexed' = lexed
          /\ pc' = "loop"]_vars

\* C16: a blank or comment line is skipped in every phase of Parse and of
\* ParseEnv and changes nothing; and a comment line after the first line
\* of a multi-line element neither ends the span of the element nor is
\* part of its text.
C16_CommentsSkippedEverywhere ==
    /\ SkippedLinesChangeNothing
    /\ [](fn = "Parse" =>
             \A k \in 1..Len(lexed) :
                 /\ lexed[k].last > lexed[k].first =>
                       ~IsCommentLine(lines[lexed[k].last])
                 /\ lexed[k].text =
                       Join(<<TrimSpace(lines[lexed[k].first])>>
                               \o SelectSeq(SubSeq(lines, lexed[k].first + 1,
                                                   lexed[k].last),
                                            IsNoCommentLine),
                            "\n"))

(***************************************************************************)
(* Documents for the substitution: a table that declares A, and elements   *)
(* whose content is a reference, holds one after other text, or holds one  *)
(* before other text.                                                      *)
(***************************************************************************)

MaxRefs == 3

\* >a="b">k>x $env:A;
RefAfterText == <<">","a","=","\"","b","\"",">","k",">","x"," ","$","e","n","v",":","A",";">>

\* >a="b">k>$env:A x;
RefBeforeText == <<">","a","=","\"","b","\"",">","k",">","$","e","n","v",":","A"," ","x",";">>

SubstHeads ==
    {<<DoctypeLine>>,
     <<DoctypeLine, CommentLine, EnvMarker, DeclA, BeginMarker>>}

SubstPool == {RefA, RefZ, RefAfterText, RefBeforeText}

InitSubst == InitOn(Documents(SubstHeads, SubstPool, MaxRefs, {<<>>}))

SpecSubst == InitSubst /\ [][Next]_vars

MaxFieldElements == 2

\* >children="b">k>c;
ElemChildrenAttr ==
    <<">","c","h","i","l","d","r","e","n","=","\"","b","\"",">","k",">","c",";">>

FieldPool == {ElemChildrenAttr, ElemKeyAttr, ElemPlain, ElemIndent1}

InitField == InitOn(Documents(NestHeads, FieldPool, MaxFieldElements, {<<>>}))

SpecField == InitField /\ [][Next]_vars

\* C21: Parse never aborts abnormally; an element lexed after an element
\* that is indented less, also one that has an attribute named children,
\* KEY, Content or Contents, is attached to the children of the nearest
\* such element, whose key is the lexed one.
C21_ParseNeverAborts ==
    fn = "Parse" =>
        /\ pc # "panicked"
        /\ pc = "returned" => (ret.err # NoError \/ ret.forest = result)
        /\ \A k \in 1..Len(lexed) :
              SmallerBefore(k) # {} =>
                  LET j == Max(SmallerBefore(k))
                  IN  /\ k <= Len(heap)
                      /\ k \in Children(j)
                      /\ heap[j][KeyField] =
                            StringValue(IdPart(StripElement(lexed[j].text)))
                      /\ heap[j][ContentField] = StringValue(NormalizedContent(j))

\* C22: the spans of the lexed elements share no line: each span starts
\* after the one before it has ended, and after Parse has lexed a span the
\* line it goes on with is the one after the last line of the span, also
\* when the span runs to the end of the input for want of a ";".
C22_SpansShareNoLine ==
    fn = "Parse" =>
        /\ \A k \in 1..(Len(lexed) - 1) : lexed[k].last < lexed[k + 1].first
        /\ (pc = "loop" /\ Len(lexed) > 0 /\ Len(heap) = Len(lexed)) =>
              i > lexed[Len(lexed)].last

\* C24: after an element has been placed the indentations of the stack are
\* strictly increasing from bottom to top and are those of its elements,
\* the top entry is the element just placed, the bottom entry is a root,
\* every entry is a child of the entry below it, and the stack is empty
\* only as long as no element has been placed.
C24_StackIsPathToLastElement ==
    (fn = "Parse" /\ Len(heap) = Len(lexed)) =>
        /\ \A n \in 1..(Len(stack) - 1) :
              /\ stack[n].indent < stack[n + 1].indent
              /\ stack[n + 1].element \in Children(stack[n].element)
        /\ \A n \in 1..Len(stack) :
              stack[n].indent = FirstLineIndent(stack[n].element)
        /\ (stack = <<>>) <=> (heap = <<>>)
        /\ stack # <<>> =>
              /\ stack[Len(stack)].element = Len(heap)
              /\ stack[1].element \in Roots

\* Parse has placed a third element after it has popped the stack, and the
\* stack holds two entries
C24_Witness ==
    /\ fn = "Parse" /\ pc = "loop"
    /\ Len(heap) = 3
    /\ Len(stack) = 2
    /\ stack[1].element = 1 /\ stack[2].element = 3

(***************************************************************************)
(* Documents for the markers inside a span: an element without terminator  *)
(* followed by section markers and elements.                               *)
(***************************************************************************)

MaxMarkerLines == 3

MarkerPool == {ElemOpen1, ElemPlain, EnvMarker, BeginMarker, EndMarker}

InitMarker == InitOn(Documents(NestHeads, MarkerPool, MaxMarkerLines, {<<>>}))

SpecMarker == InitMarker /\ [][Next]_vars

\* the last BEGIN or END line among the lines before line k, 0 if none
LastBodyMarker(ls, k) ==
    LET before == {m \in 1..(k - 1) : TrimSpace(ls[m]) \in {BeginMarker, EndMarker}}
    IN  IF before = {} THEN 0 ELSE Max(before)

\* C23: no line after the first line of the span of an element is a
\* section marker, and the Body phase is active exactly when the last
\* BEGIN or END line Parse has gone past is a BEGIN line: a marker line
\* always makes its transition and is never part of an element.
C23_MarkersNeverAbsorbed ==
    fn = "Parse" =>
        /\ \A k \in 1..Len(lexed) :
              \A m \in (lexed[k].first + 1)..lexed[k].last :
                  ~IsSectionMarker(TrimSpace(lines[m]))
        /\ pc = "loop" =>
              (inBody <=> /\ LastBodyMarker(lines, i) # 0
                          /\ TrimSpace(lines[LastBodyMarker(lines, i)]) = BeginMarker)

====
